---- MODULE Spec2Model ----
(***************************************************************************)
(* Household-occupancy prediction notebook                                 *)
(* (Prasanth_Household_prediction.ipynb) as a state machine.               *)
(*                                                                         *)
(* The notebook is a strictly sequential batch pipeline.  Every cell       *)
(* statement that produces a named value is one action; pc is the position *)
(* of the run.  An exception raised by a statement ends the run            *)
(* (pc = "failed"): nothing after the raising statement is executed.       *)
(*                                                                         *)
(* Numbers.  Feature values are floats in the notebook.  They are modelled *)
(* exactly, as reduced fractions <<n, d>> with d > 0; the two IEEE         *)
(* specials the pipeline can produce are Inf == <<1, 0>> and               *)
(* NaN == <<0, 0>>.  Timestamps are whole minutes since midnight of day 0. *)
(***************************************************************************)
EXTENDS Integers, Sequences, FiniteSets, TLC

VARIABLES
    pc,               \* position of the run
    started,          \* modelling stages whose call has been entered
    error,            \* "none", or what the raising statement raised
    homes_df,         \* rows of the homes table, in id order
    motion_df,        \* rows of the motion table
    motion_features,  \* one row per home_id present in motion_df
    merged_df,        \* homes_df left-merged with motion_features, NaN filled
    X, y,             \* feature matrix (9 columns) and label vector
    X_resampled, y_resampled,
    X_train, X_test, y_train, y_test,
    test_idx,         \* rows of X_resampled that went to the test subset
    scaler,           \* fitted StandardScaler parameters
    X_train_scaled, X_test_scaled,
    random_search,    \* cv_results_ / best_index_ / best_params_
    y_pred, accuracy,
    feature_importance

vars == <<pc, started, error, homes_df, motion_df, motion_features, merged_df,
          X, y, X_resampled, y_resampled, X_train, X_test, y_train, y_test,
          test_idx, scaler, X_train_scaled, X_test_scaled, random_search,
          y_pred, accuracy, feature_importance>>

----------------------------------------------------------------------------
(* Bounds of the explored inputs *)

\* rows of the motion table in the free-form input family
MaxEvents == 2
\* rows of the motion table in the hour-sweep input family
MaxHourEvents == 2
\* households per label in the regular input family
MaxClass == 8
\* households per label in the many-events input family
MaxScenarioClass == 3
\* base number of motion rows of a household in the many-events family
ScenarioEvents == 10

----------------------------------------------------------------------------
(* Exact arithmetic on fractions *)

RECURSIVE GCD(_, _)
GCD(a, b) == IF b = 0 THEN a ELSE GCD(b, a % b)

Abs(n) == IF n < 0 THEN -n ELSE n

Inf == <<1, 0>>
NaN == <<0, 0>>
Zero == <<0, 1>>
One == <<1, 1>>

\* the reduced fraction n/d, d > 0
Frac(n, d) ==
    LET g == GCD(Abs(n), d) IN <<n \div g, d \div g>>

Num(n) == <<n, 1>>

IsFinite(a) == a[2] # 0

\* sums and products reduce before they multiply, to keep the integers small
RAdd(a, b) ==
    LET g == GCD(a[2], b[2])
    IN  Frac(a[1] * (b[2] \div g) + b[1] * (a[2] \div g), (a[2] \div g) * b[2])
RNeg(a) == <<-a[1], a[2]>>
RSub(a, b) == RAdd(a, RNeg(b))
RMul(a, b) ==
    LET g1 == GCD(Abs(a[1]), b[2])
        g2 == GCD(Abs(b[1]), a[2])
    IN  Frac((a[1] \div g1) * (b[1] \div g2), (a[2] \div g2) * (b[2] \div g1))
RLess(a, b) ==
    LET g == GCD(a[2], b[2])
    IN  a[1] * (b[2] \div g) < b[1] * (a[2] \div g)

\* float division as numpy carries it out: a finite a >= 0 divided by a
\* finite b >= 0; x/0.0 is inf for x > 0 and nan for x = 0, never an exception
RDiv(a, b) ==
    IF b[1] = 0
    THEN (IF a[1] = 0 THEN NaN ELSE Inf)
    ELSE Frac(a[1] * b[2], a[2] * b[1])

RECURSIVE RSum(_, _)
RSum(f, S) ==
    IF S = {} THEN Zero
    ELSE LET i == CHOOSE j \in S : TRUE IN RAdd(f[i], RSum(f, S \ {i}))

----------------------------------------------------------------------------
(* Sequence helpers *)

Max(S) == CHOOSE m \in S : \A n \in S : n <= m
Min(S) == CHOOSE m \in S : \A n \in S : m <= n

\* the elements of a finite set of integers in ascending order
RECURSIVE SortedSeq(_)
SortedSeq(S) ==
    IF S = {} THEN <<>>
    ELSE LET m == Min(S) IN <<m>> \o SortedSeq(S \ {m})

Range(s) == {s[i] : i \in DOMAIN s}

\* the subsequence of s at the positions in I, in order
Take(s, I) == LET idx == SortedSeq(I) IN [k \in 1..Len(idx) |-> s[idx[k]]]

CountIf(S, P(_)) == Cardinality({e \in S : P(e)})

----------------------------------------------------------------------------
(* Feature engineering: create_features *)

\* the ordered column list that selects X out of merged_df
FeatureCols ==
    <<"motion_count", "time_range_hours", "unique_locations", "activity_hours",
      "events_per_hour", "morning_activity", "afternoon_activity",
      "evening_activity", "night_activity">>

NumFeatures == Len(FeatureCols)

\* Series.dt.hour
Hour(t) == (t \div 60) % 24

\* faulty variant: a half-open interval, as inclusive="left" would give
BetweenLeftOnly(h, lo, hi) == lo <= h /\ h < hi

\* Series.between(lo, hi) with the default inclusive="both"
Between(h, lo, hi) == lo <= h /\ h <= hi

\* (group['datetime'].max() - group['datetime'].min()).total_seconds() / 3600
TimeRangeHours(group) ==
    LET ts == {e.datetime : e \in group}
    IN  Frac(Max(ts) - Min(ts), 60)

\* group['id'].count() / (... .total_seconds() / 3600)
EventsPerHour(group) ==
    RDiv(Num(Cardinality(group)), TimeRangeHours(group))

\* group is the non-empty set of motion rows of one home_id
create_features(group) ==
    LET morning   == CountIf(group, LAMBDA e : Between(Hour(e.datetime), 6, 12))
        afternoon == CountIf(group, LAMBDA e : Between(Hour(e.datetime), 12, 18))
        evening   == CountIf(group, LAMBDA e : Between(Hour(e.datetime), 18, 24))
        night     == CountIf(group, LAMBDA e : Between(Hour(e.datetime), 0, 6))
    IN  [motion_count       |-> Num(Cardinality(group)),
         time_range_hours   |-> TimeRangeHours(group),
         unique_locations   |-> Num(Cardinality({e.location : e \in group})),
         activity_hours     |-> Num(Cardinality({Hour(e.datetime) : e \in group})),
         events_per_hour    |-> EventsPerHour(group),
         morning_activity   |-> Num(morning),
         afternoon_activity |-> Num(afternoon),
         evening_activity   |-> Num(evening),
         night_activity     |-> Num(night)]

\* the rows of motion_df that belong to home h
Group(h) == {e \in Range(motion_df) : e.home_id = h}

HomeIdsInMotion == {e.home_id : e \in Range(motion_df)}

\* motion_df.groupby('home_id').apply(create_features).reset_index():
\* one row per home_id, in ascending home_id order
GroupByApply ==
    LET keys == SortedSeq(HomeIdsInMotion)
    IN  [k \in 1..Len(keys) |->
            [home_id |-> keys[k], features |-> create_features(Group(keys[k]))]]

----------------------------------------------------------------------------
(* Merge, fillna, column selection *)

\* the right-hand columns of a left row that found no match
NaNFeatures ==
    [motion_count |-> NaN, time_range_hours |-> NaN, unique_locations |-> NaN,
     activity_hours |-> NaN, events_per_hour |-> NaN, morning_activity |-> NaN,
     afternoon_activity |-> NaN, evening_activity |-> NaN, night_activity |-> NaN]

\* faulty variant: how='inner', which drops the homes without a match
MergeInner(left, right) ==
    LET keep == {i \in 1..Len(left) :
                    \E k \in 1..Len(right) : right[k].home_id = left[i].id}
        l2 == Take(left, keep)
    IN  [i \in 1..Len(l2) |->
            LET k == CHOOSE k \in 1..Len(right) : right[k].home_id = l2[i].id
            IN  [id |-> l2[i].id,
                 multiple_occupancy |-> l2[i].multiple_occupancy,
                 features |-> right[k].features]]

\* homes_df.merge(motion_features, left_on='id', right_on='home_id', how='left'):
\* every left row is kept; home_id is unique on the right, so a left row
\* yields exactly one output row
MergeLeft(left, right) ==
    [i \in 1..Len(left) |->
        LET m == {k \in 1..Len(right) : right[k].home_id = left[i].id}
        IN  [id |-> left[i].id,
             multiple_occupancy |-> left[i].multiple_occupancy,
             features |-> IF m = {} THEN NaNFeatures
                          ELSE right[CHOOSE k \in m : TRUE].features]]

\* DataFrame.fillna(0) on one cell: NaN becomes 0, everything else (inf
\* included) is left as it is
FillNa(v) == IF v = NaN THEN Zero ELSE v

FillNaRows(df) ==
    [i \in 1..Len(df) |->
        [df[i] EXCEPT !.features =
            [c \in DOMAIN df[i].features |-> FillNa(df[i].features[c])]]]

\* merged_df[[...the nine columns...]]
SelectX(df) ==
    [i \in 1..Len(df) |-> [c \in 1..NumFeatures |-> df[i].features[FeatureCols[c]]]]

SelectY(df) == [i \in 1..Len(df) |-> df[i].multiple_occupancy]

----------------------------------------------------------------------------
(* Imbalance correction: SMOTE(random_state=42).fit_resample *)

\* faulty variant: a single neighbour, as SMOTE(k_neighbors=1) would ask for
KOne == 2 - 1

\* SMOTE() is built with its default k_neighbors
K_NEIGHBORS == 5

\* samples the neighbour search asks for: the sample itself and k neighbours
NeighborsNeeded == K_NEIGHBORS + 1

\* outcomes of the random draws that SMOTE's seeded generator can yield
SmoteDraws == 2

Labels == {0, 1}

ClassIdx(yv, c) == {i \in DOMAIN yv : yv[i] = c}
ClassCount(yv, c) == Cardinality(ClassIdx(yv, c))

\* the class with fewer samples; with equal counts one label stands as the
\* majority and the other is asked for 0 new rows, so the choice is immaterial
MinorityLabel(yv) == IF ClassCount(yv, 1) <= ClassCount(yv, 0) THEN 1 ELSE 0
MajorityLabel(yv) == 1 - MinorityLabel(yv)

\* faulty variant: one synthetic row too few
NumSyntheticShort(yv) ==
    IF ClassCount(yv, MajorityLabel(yv)) = ClassCount(yv, MinorityLabel(yv)) THEN 0
    ELSE ClassCount(yv, MajorityLabel(yv)) - ClassCount(yv, MinorityLabel(yv)) - 1

\* sampling_strategy='auto': new rows asked for the non-majority class
NumSynthetic(yv) ==
    ClassCount(yv, MajorityLabel(yv)) - ClassCount(yv, MinorityLabel(yv))

AllFinite(Xv) ==
    \A i \in DOMAIN Xv : \A c \in DOMAIN Xv[i] : IsFinite(Xv[i][c])

\* what fit_resample raises (a ValueError in each case), in the order of its
\* checks: input validation, sampling strategy, neighbour search
SmoteError(Xv, yv) ==
    IF Len(Xv) = 0 THEN "empty_input"
    ELSE IF ~AllFinite(Xv) THEN "non_finite_input"
    ELSE IF Cardinality(Range(yv)) <= 1 THEN "single_class"
    ELSE IF NumSynthetic(yv) > 0
            /\ ClassCount(yv, MinorityLabel(yv)) < NeighborsNeeded
         THEN "n_neighbors_gt_n_samples"
    ELSE "none"

\* squared Euclidean distance of two feature rows
SqDist(a, b) ==
    RSum([c \in DOMAIN a |-> RMul(RSub(a[c], b[c]), RSub(a[c], b[c]))], DOMAIN a)

\* the k nearest other rows of the class (positions in Xc), nearest first,
\* equal distances in position order
Nearest(Xc, p, k) ==
    LET others == (DOMAIN Xc) \ {p}
        Before(q1, q2) ==
            \/ RLess(SqDist(Xc[p], Xc[q1]), SqDist(Xc[p], Xc[q2]))
            \/ SqDist(Xc[p], Xc[q1]) = SqDist(Xc[p], Xc[q2]) /\ q1 < q2
        Rank(q) == 1 + Cardinality({q1 \in others : Before(q1, q)})
    IN  [c \in 1..k |-> CHOOSE q \in others : Rank(q) = c]

Gaps == <<Zero, <<1, 2>>>>

\* _make_samples: synthetic row j starts at class row (s \div k), moves the
\* fraction gap towards that row's neighbour number (s % k); s and gap come
\* from the seeded generator, whose stream is the draw r
Synthetic(Xc, r, j) ==
    LET k    == K_NEIGHBORS
        s    == (7 * r + 3 * j) % (Len(Xc) * k)
        row  == (s \div k) + 1
        col  == (s % k) + 1
        gap  == Gaps[((r + j) % Len(Gaps)) + 1]
        base == Xc[row]
        nn   == Xc[Nearest(Xc, row, k)[col]]
    IN  [c \in DOMAIN base |-> RAdd(base[c], RMul(gap, RSub(nn[c], base[c])))]

\* the resampled data: the original rows, then the synthetic minority rows
SmoteX(Xv, yv, r) ==
    LET Xc == Take(Xv, ClassIdx(yv, MinorityLabel(yv)))
    IN  Xv \o [j \in 1..NumSynthetic(yv) |-> Synthetic(Xc, r, j)]

SmoteY(yv) == yv \o [j \in 1..NumSynthetic(yv) |-> MinorityLabel(yv)]

----------------------------------------------------------------------------
(* train_test_split(..., test_size=0.2, random_state=42) *)

\* ceil(0.2 * n)
NumTest(n) == (n + 4) \div 5

NumTrain(n) == n - NumTest(n)

\* Without stratify the test subset is the head of a seeded permutation of
\* the row positions.  Which positions that is depends on the generator
\* alone, not on the labels, and any arrangement of the labels over the rows
\* is a possible input, so any subset of the right size is a possible
\* outcome.  The outcomes explored are the runs of NumTest(n) consecutive
\* positions, wrapping around at the end.
TestSubsets(n) ==
    {{((a + i) % n) + 1 : i \in 0..(NumTest(n) - 1)} : a \in 0..(n - 1)}

----------------------------------------------------------------------------
(* StandardScaler *)

\* the sum of column c of M over its first n rows
RECURSIVE ColSum(_, _, _)
ColSum(M, c, n) == IF n = 0 THEN Zero ELSE RAdd(M[n][c], ColSum(M, c, n - 1))

RECURSIVE ColSqDev(_, _, _, _)
ColSqDev(M, c, mu, n) ==
    IF n = 0 THEN Zero
    ELSE RAdd(RMul(RSub(M[n][c], mu), RSub(M[n][c], mu)), ColSqDev(M, c, mu, n - 1))

ColMean(M, c) == RDiv(ColSum(M, c, Len(M)), Num(Len(M)))

\* the population variance (ddof = 0)
ColVar(M, c) == RDiv(ColSqDev(M, c, ColMean(M, c), Len(M)), Num(Len(M)))

\* scaler.fit: per-column mean_ and var_ of the matrix it is given
ScalerFit(M) ==
    [mean_ |-> [c \in 1..NumFeatures |-> ColMean(M, c)],
     var_  |-> [c \in 1..NumFeatures |-> ColVar(M, c)],
     n_samples_seen_ |-> Len(M)]

\* scale_ squared: var_, with a zero variance replaced by 1
ScaleSq(sc, c) == IF sc.var_[c] = Zero THEN One ELSE sc.var_[c]

\* scaler.transform: the cell (x - mean_) / scale_, kept exactly as the pair
\* <<x - mean_, scale_^2>>
ScalerTransform(sc, M) ==
    [i \in DOMAIN M |->
        [c \in 1..NumFeatures |-> <<RSub(M[i][c], sc.mean_[c]), ScaleSq(sc, c)>>]]

----------------------------------------------------------------------------
(* RandomizedSearchCV(rf, param_grid, n_iter=20, cv=5, random_state=42) *)

n_estimators_list == <<100, 200, 300>>
\* max_depth None (unbounded) is written 0
max_depth_list == <<0, 10, 20, 30>>
min_samples_split_list == <<2, 5, 10>>
min_samples_leaf_list == <<1, 2, 4>>

param_grid ==
    [n_estimators      : Range(n_estimators_list),
     max_depth         : Range(max_depth_list),
     min_samples_split : Range(min_samples_split_list),
     min_samples_leaf  : Range(min_samples_leaf_list)]

GridSize == Cardinality(param_grid)

n_iter == 20
cv == 5

\* ParameterGrid[ind]: the keys in sorted order, the last one cycling fastest
GridPoint(ind) ==
    LET i1 == ind \div 3
        i2 == i1 \div 3
        i3 == i2 \div 3
    IN  [n_estimators      |-> n_estimators_list[(ind % 3) + 1],
         min_samples_split |-> min_samples_split_list[(i1 % 3) + 1],
         min_samples_leaf  |-> min_samples_leaf_list[(i2 % 3) + 1],
         max_depth         |-> max_depth_list[(i3 % 4) + 1]]

\* outcomes of the search's seeded sampling and of the forests' scores
SearchDraws == 4

Strides == <<1, 5, 7, 11>>

\* ParameterSampler over lists only: min(n_iter, grid size) grid points drawn
\* without replacement; draw r fixes which ones and in which order
Candidates(r) ==
    [i \in 1..(IF n_iter < GridSize THEN n_iter ELSE GridSize) |->
        GridPoint((37 * r + (i - 1) * Strides[(r % Len(Strides)) + 1]) % GridSize)]

\* mean cross-validated score of candidate i (a level, higher is better);
\* the patterns cover all-equal scores, repeated maxima and a single maximum
MeanTestScore(r, i) == ((i - 1) * r) % (r + 2)

\* faulty variant: the last candidate whose mean score is maximal
BestIndexLast(scores) ==
    Max({i \in DOMAIN scores : \A j \in DOMAIN scores : scores[j] <= scores[i]})

\* rank_test_score.argmin(): the first candidate whose mean score is maximal
BestIndex(scores) ==
    Min({i \in DOMAIN scores : \A j \in DOMAIN scores : scores[j] <= scores[i]})

\* StratifiedKFold(5).split raises when every class has fewer than 5 members
SearchFails(yv) == \A c \in Range(yv) : ClassCount(yv, c) < cv

----------------------------------------------------------------------------
(* Evaluation and feature importance *)

\* best_rf.predict: the fitted forest is opaque; it either reproduces the
\* held-out labels or answers the majority label of its training set
Predict(p, ytrain, ytest) ==
    IF p = 1 THEN ytest
    ELSE [i \in DOMAIN ytest |->
            IF ClassCount(ytrain, 1) > ClassCount(ytrain, 0) THEN 1 ELSE 0]

\* accuracy_score
AccuracyScore(ytrue, ypred) ==
    RDiv(Num(Cardinality({i \in DOMAIN ytrue : ytrue[i] = ypred[i]})),
         Num(Len(ytrue)))

\* best_rf.feature_importances_: nine non-negative weights that sum to 1
Importances(q) ==
    IF q = 0 THEN [c \in 1..NumFeatures |-> Frac(1, NumFeatures)]
    ELSE [c \in 1..NumFeatures |-> Frac(c, (NumFeatures * (NumFeatures + 1)) \div 2)]

\* DataFrame({'feature', 'importance'}).sort_values('importance',
\* ascending=False); equal importances stay in column order
SortDescending(imp) ==
    LET Before(c1, c2) == \/ RLess(imp[c2], imp[c1])
                          \/ imp[c1] = imp[c2] /\ c1 < c2
        Rank(c) == 1 + Cardinality({c1 \in DOMAIN imp : Before(c1, c)})
    IN  [k \in DOMAIN imp |->
            LET c == CHOOSE c \in DOMAIN imp : Rank(c) = k
            IN  [feature |-> FeatureCols[c], importance |-> imp[c]]]

----------------------------------------------------------------------------
(* Inputs: the two relations the notebook reads from the database *)

HomeIds == {1, 2}
Locations == {"a", "b"}

\* 05:30, 06:00, 12:00, 18:00 of day 0 and 06:00 of day 1
KeyTimes == {330, 360, 720, 1080, 1800}

\* homes rows in id order for a labelling lab of a set of ids
HomesFrom(lab) ==
    LET ids == SortedSeq(DOMAIN lab)
    IN  [k \in 1..Len(ids) |-> [id |-> ids[k], multiple_occupancy |-> lab[ids[k]]]]

\* motion rows numbered by their primary key
MotionFrom(ev) ==
    [k \in 1..Len(ev) |->
        [id |-> k, home_id |-> ev[k].home_id, datetime |-> ev[k].datetime,
         location |-> ev[k].location]]

\* free-form family: any homes over HomeIds, any few motion rows
FreeInputs ==
    {<<HomesFrom(lab), MotionFrom(ev)>> :
        lab \in UNION {[H -> Labels] : H \in SUBSET HomeIds},
        ev \in UNION {[1..n -> [home_id : HomeIds, datetime : KeyTimes,
                                location : Locations]] : n \in 0..MaxEvents}}

\* hour-sweep family: one home whose few motion rows fall on any hour of day 0
HourSweepInputs ==
    {<<HomesFrom([h \in {1} |-> l]),
       MotionFrom([k \in DOMAIN hs |->
                     [home_id |-> 1, datetime |-> 60 * hs[k], location |-> "a"]])>> :
        l \in Labels,
        hs \in UNION {[1..n -> 0..23] : n \in 1..MaxHourEvents}}

\* regular families: n0 homes labelled 0 then n1 homes labelled 1; home i has
\* v or v + 1 motion rows, two hours apart, starting at hour i
RegularEvents(n, v) ==
    LET cnt(i) == v + (i % 2)
        RECURSIVE rows(_)
        rows(i) ==
            IF i > n THEN <<>>
            ELSE [j \in 1..cnt(i) |->
                    [home_id |-> i, datetime |-> 60 * (i + 2 * (j - 1)),
                     location |-> IF j % 2 = 1 THEN "a" ELSE "b"]] \o rows(i + 1)
    IN  rows(1)

RegularInputs(maxc, v) ==
    {<<HomesFrom([i \in 1..(n0 + n1) |-> IF i <= n0 THEN 0 ELSE 1]),
       MotionFrom(RegularEvents(n0 + n1, v))>> :
        n0 \in 0..maxc, n1 \in 0..maxc}

Inputs ==
    FreeInputs \cup HourSweepInputs
        \cup RegularInputs(MaxClass, 2)
        \cup RegularInputs(MaxScenarioClass, ScenarioEvents)

----------------------------------------------------------------------------
(* The run *)

Stages == {"smote", "split", "scale", "search", "evaluate"}

Unfitted == [mean_ |-> <<>>, var_ |-> <<>>, n_samples_seen_ |-> 0]

NoSearch == [cv_results_ |-> <<>>, best_index_ |-> 0, best_params_ |-> <<>>]

Init ==
    /\ \E inp \in Inputs : homes_df = inp[1] /\ motion_df = inp[2]
    /\ pc = "aggregate"
    /\ started = {}
    /\ error = "none"
    /\ motion_features = <<>>
    /\ merged_df = <<>>
    /\ X = <<>> /\ y = <<>>
    /\ X_resampled = <<>> /\ y_resampled = <<>>
    /\ X_train = <<>> /\ X_test = <<>> /\ y_train = <<>> /\ y_test = <<>>
    /\ test_idx = {}
    /\ scaler = Unfitted
    /\ X_train_scaled = <<>> /\ X_test_scaled = <<>>
    /\ random_search = NoSearch
    /\ y_pred = <<>> /\ accuracy = NaN
    /\ feature_importance = <<>>

\* the statement raises: the run ends and nothing else changes
Raise(what) == pc' = "failed" /\ error' = what

\* cell 4: motion_features = motion_df.groupby('home_id').apply(...).reset_index()
\* With no motion row there is no group: apply returns an empty frame that
\* still has motion_df's own columns, and reset_index cannot insert home_id
\* next to the home_id column already there.
Aggregate ==
    /\ pc = "aggregate"
    /\ IF Len(motion_df) = 0
       THEN Raise("reset_index_home_id_exists") /\ UNCHANGED motion_features
       ELSE motion_features' = GroupByApply /\ pc' = "assemble" /\ UNCHANGED error
    /\ UNCHANGED <<started, homes_df, motion_df, merged_df, X, y, X_resampled,
                   y_resampled, X_train, X_test, y_train, y_test, test_idx,
                   scaler, X_train_scaled, X_test_scaled, random_search, y_pred,
                   accuracy, feature_importance>>

\* cell 5: merge, fillna(0), X and y
Assemble ==
    /\ pc = "assemble"
    /\ merged_df' = FillNaRows(MergeLeft(homes_df, motion_features))
    /\ X' = SelectX(merged_df')
    /\ y' = SelectY(merged_df')
    /\ pc' = "smote"
    /\ UNCHANGED <<started, error, homes_df, motion_df, motion_features,
                   X_resampled, y_resampled, X_train, X_test, y_train, y_test,
                   test_idx, scaler, X_train_scaled, X_test_scaled,
                   random_search, y_pred, accuracy, feature_importance>>

\* cell 6: X_resampled, y_resampled = smote.fit_resample(X, y)
Smote ==
    /\ pc = "smote"
    /\ started' = started \cup {"smote"}
    /\ IF SmoteError(X, y) # "none"
       THEN Raise(SmoteError(X, y)) /\ UNCHANGED <<X_resampled, y_resampled>>
       ELSE /\ \E r \in 0..(SmoteDraws - 1) : X_resampled' = SmoteX(X, y, r)
            /\ y_resampled' = SmoteY(y)
            /\ pc' = "split"
            /\ UNCHANGED error
    /\ UNCHANGED <<homes_df, motion_df, motion_features, merged_df, X, y,
                   X_train, X_test, y_train, y_test, test_idx, scaler,
                   X_train_scaled, X_test_scaled, random_search, y_pred,
                   accuracy, feature_importance>>

\* cell 6: train_test_split(X_resampled, y_resampled, test_size=0.2,
\* random_state=42); rows are kept in position order inside each subset
Split ==
    /\ pc = "split"
    /\ started' = started \cup {"split"}
    /\ IF NumTrain(Len(X_resampled)) = 0
       THEN /\ Raise("empty_train_set")
            /\ UNCHANGED <<X_train, X_test, y_train, y_test, test_idx>>
       ELSE /\ \E T \in TestSubsets(Len(X_resampled)) :
                 /\ test_idx' = T
                 /\ X_test' = Take(X_resampled, T)
                 /\ y_test' = Take(y_resampled, T)
                 /\ X_train' = Take(X_resampled, (DOMAIN X_resampled) \ T)
                 /\ y_train' = Take(y_resampled, (DOMAIN y_resampled) \ T)
            /\ pc' = "scale_fit"
            /\ UNCHANGED error
    /\ UNCHANGED <<homes_df, motion_df, motion_features, merged_df, X, y,
                   X_resampled, y_resampled, scaler, X_train_scaled,
                   X_test_scaled, random_search, y_pred, accuracy,
                   feature_importance>>

\* cell 6: X_train_scaled = scaler.fit_transform(X_train)
ScaleFit ==
    /\ pc = "scale_fit"
    /\ started' = started \cup {"scale"}
    /\ scaler' = ScalerFit(X_train)
    /\ X_train_scaled' = ScalerTransform(scaler', X_train)
    /\ pc' = "scale_transform"
    /\ UNCHANGED <<error, homes_df, motion_df, motion_features, merged_df, X, y,
                   X_resampled, y_resampled, X_train, X_test, y_train, y_test,
                   test_idx, X_test_scaled, random_search, y_pred, accuracy,
                   feature_importance>>

\* faulty variant: fit_transform on the test subset, which refits the scaler
ScaleTransformRefit ==
    /\ pc = "scale_transform"
    /\ scaler' = ScalerFit(X_test)
    /\ X_test_scaled' = ScalerTransform(scaler', X_test)
    /\ pc' = "search"
    /\ UNCHANGED <<started, error, homes_df, motion_df, motion_features,
                   merged_df, X, y, X_resampled, y_resampled, X_train, X_test,
                   y_train, y_test, test_idx, X_train_scaled,
                   random_search, y_pred, accuracy, feature_importance>>

\* cell 6: X_test_scaled = scaler.transform(X_test)
ScaleTransform ==
    /\ pc = "scale_transform"
    /\ X_test_scaled' = ScalerTransform(scaler, X_test)
    /\ pc' = "search"
    /\ UNCHANGED <<started, error, homes_df, motion_df, motion_features,
                   merged_df, X, y, X_resampled, y_resampled, X_train, X_test,
                   y_train, y_test, test_idx, scaler, X_train_scaled,
                   random_search, y_pred, accuracy, feature_importance>>

\* the fitted search for draw r
SearchResult(r) ==
    LET cands  == Candidates(r)
        scores == [i \in DOMAIN cands |-> MeanTestScore(r, i)]
        best   == BestIndex(scores)
    IN  [cv_results_ |-> [i \in DOMAIN cands |->
                            [params |-> cands[i], mean_test_score |-> scores[i]]],
         best_index_ |-> best,
         best_params_ |-> cands[best]]

\* cell 8: random_search.fit(X_train_scaled, y_train)
Search ==
    /\ pc = "search"
    /\ started' = started \cup {"search"}
    /\ IF SearchFails(y_train)
       THEN Raise("n_splits_gt_class_members") /\ UNCHANGED random_search
       ELSE /\ \E r \in 0..(SearchDraws - 1) : random_search' = SearchResult(r)
            /\ pc' = "evaluate"
            /\ UNCHANGED error
    /\ UNCHANGED <<homes_df, motion_df, motion_features, merged_df, X, y,
                   X_resampled, y_resampled, X_train, X_test, y_train, y_test,
                   test_idx, scaler, X_train_scaled, X_test_scaled, y_pred,
                   accuracy, feature_importance>>

\* cell 9: y_pred = best_rf.predict(X_test_scaled); accuracy_score
Evaluate ==
    /\ pc = "evaluate"
    /\ started' = started \cup {"evaluate"}
    /\ \E p \in 0..1 : y_pred' = Predict(p, y_train, y_test)
    /\ accuracy' = AccuracyScore(y_test, y_pred')
    /\ pc' = "importance"
    /\ UNCHANGED <<error, homes_df, motion_df, motion_features, merged_df, X, y,
                   X_resampled, y_resampled, X_train, X_test, y_train, y_test,
                   test_idx, scaler, X_train_scaled, X_test_scaled,
                   random_search, feature_importance>>

\* cell 10: the feature-importance table
Importance ==
    /\ pc = "importance"
    /\ \E q \in 0..1 : feature_importance' = SortDescending(Importances(q))
    /\ pc' = "done"
    /\ UNCHANGED <<started, error, homes_df, motion_df, motion_features,
                   merged_df, X, y, X_resampled, y_resampled, X_train, X_test,
                   y_train, y_test, test_idx, scaler, X_train_scaled,
                   X_test_scaled, random_search, y_pred, accuracy>>

Next ==
    \/ Aggregate
    \/ Assemble
    \/ Smote
    \/ Split
    \/ ScaleFit
    \/ ScaleTransform
    \/ Search
    \/ Evaluate
    \/ Importance

Spec == Init /\ [][Next]_vars

----------------------------------------------------------------------------
(* Properties *)

Terminal == pc \in {"done", "failed"}

\* cell 4 has produced motion_features
Aggregated == pc # "aggregate" /\ error # "reset_index_home_id_exists"

\* cell 5 has produced merged_df, X and y
Assembled == Aggregated /\ pc # "assemble"

SmoteErrors ==
    {"empty_input", "non_finite_input", "single_class", "n_neighbors_gt_n_samples"}

\* fit_resample has returned
Resampled == "smote" \in started /\ error \notin SmoteErrors

\* train_test_split has returned
SplitDone == "split" \in started /\ error # "empty_train_set"

\* random_search.fit has returned
Searched == random_search.best_index_ > 0

Diff(a, b) == IF a < b THEN b - a ELSE a - b

\* C1: a household whose motion rows all carry one timestamp (in particular a
\* household with a single motion row) gets time_range_hours = 0 and
\* events_per_hour = 0, and no infinite or undefined value reaches X.
C1_ZeroRangeZeroRate ==
    /\ \A k \in DOMAIN motion_features :
          (/\ \E i \in DOMAIN homes_df : homes_df[i].id = motion_features[k].home_id
           /\ Cardinality({e.datetime : e \in Group(motion_features[k].home_id)}) = 1)
          => /\ motion_features[k].features.time_range_hours = Zero
             /\ motion_features[k].features.events_per_hour = Zero
    /\ AllFinite(X)

C3_StratifiedSplit ==
    (SplitDone /\ ClassCount(y_resampled, 0) = ClassCount(y_resampled, 1)) =>
        /\ test_idx \subseteq DOMAIN X_resampled
        /\ Len(X_test) = Cardinality(test_idx)
        /\ Len(X_train) + Len(X_test) = Len(X_resampled)
        /\ Len(y_train) = Len(X_train) /\ Len(y_test) = Len(X_test)
        /\ Diff(ClassCount(y_train, 0), ClassCount(y_train, 1)) <= 1
        /\ Diff(ClassCount(y_test, 0), ClassCount(y_test, 1)) <= 1

\* C4: when fit_resample returns for labels with unequal class counts, the
\* output has as many rows of label 0 as of label 1, and twice the majority
\* count of rows in all.
C4_BalancedAfterSmote ==
    (Resampled /\ ClassCount(y, 0) # ClassCount(y, 1)) =>
        /\ ClassCount(y_resampled, 0) = ClassCount(y_resampled, 1)
        /\ Len(y_resampled) = 2 * Max({ClassCount(y, 0), ClassCount(y, 1)})
        /\ Len(X_resampled) = Len(y_resampled)

C4_Witness ==
    /\ Resampled
    /\ ClassCount(y, 0) # ClassCount(y, 1)
    /\ Len(y_resampled) > Len(y)

\* C5: when the class counts differ and the smaller class has fewer than
\* 5 + 1 rows, fit_resample raises (the neighbour-count error whenever the
\* input is finite and has both labels), the run ends there, no resampled data
\* exists and no later stage is entered.
C5_InsufficientSamplesAborts ==
    ("smote" \in started
       /\ ClassCount(y, 0) # ClassCount(y, 1)
       /\ Min({ClassCount(y, 0), ClassCount(y, 1)}) < 5 + 1) =>
        /\ pc = "failed"
        /\ error \in SmoteErrors
        /\ (AllFinite(X) /\ Range(y) = Labels) => error = "n_neighbors_gt_n_samples"
        /\ X_resampled = <<>> /\ y_resampled = <<>>
        /\ started = {"smote"}
        /\ X_train = <<>> /\ scaler = Unfitted /\ random_search = NoSearch
        /\ y_pred = <<>>

C5_Witness ==
    /\ "smote" \in started
    /\ ClassCount(y, 0) # ClassCount(y, 1)
    /\ Min({ClassCount(y, 0), ClassCount(y, 1)}) \in 1..5
    /\ error = "n_neighbors_gt_n_samples"

\* the end-to-end scenario: 5 households, 3 of label 1 and 2 of label 0, each
\* with at least 10 motion rows that fall on pairwise distinct hours
Scenario ==
    /\ Len(homes_df) = 5
    /\ Cardinality({i \in DOMAIN homes_df : homes_df[i].multiple_occupancy = 1}) = 3
    /\ Cardinality({i \in DOMAIN homes_df : homes_df[i].multiple_occupancy = 0}) = 2
    /\ \A i \in DOMAIN homes_df :
          LET g == Group(homes_df[i].id)
          IN  /\ Cardinality(g) >= 10
              /\ Cardinality({Hour(e.datetime) : e \in g}) = Cardinality(g)

\* C6 as stated: in the scenario the finished run has 6 resampled rows, 3 per
\* label, a selected configuration from the grid and a non-empty ranking.
C6_ScenarioSucceeds ==
    (Scenario /\ Terminal) =>
        /\ Len(y_resampled) = 6
        /\ ClassCount(y_resampled, 0) = 3 /\ ClassCount(y_resampled, 1) = 3
        /\ Searched
        /\ random_search.best_params_ \in param_grid
        /\ Len(feature_importance) > 0

\* C6 amended: in the scenario fit_resample raises the neighbour-count error
\* (2 minority rows, 6 needed); no resampled data exists, no later stage is
\* entered, no configuration is selected and no ranking is produced.
C6_ScenarioAborts ==
    (Scenario /\ "smote" \in started) =>
        /\ pc = "failed"
        /\ error = "n_neighbors_gt_n_samples"
        /\ X_resampled = <<>> /\ y_resampled = <<>>
        /\ started = {"smote"}
        /\ random_search = NoSearch
        /\ feature_importance = <<>>

C6_Witness ==
    /\ Scenario
    /\ pc = "failed"
    /\ ClassCount(y, 1) = 3 /\ ClassCount(y, 0) = 2
    /\ AllFinite(X)

\* C7: from fit_transform on, the scaler's parameters are those fitted on
\* X_train (also after X_test has been transformed), the scaled train matrix
\* is X_train under these parameters, and the scaled test matrix is X_test
\* under the same parameters.
C7_ScalerFittedOnTrainOnly ==
    ("scale" \in started) =>
        LET fitted == ScalerFit(X_train)
        IN  /\ scaler = fitted
            /\ X_train_scaled = ScalerTransform(fitted, X_train)
            /\ pc \notin {"scale_fit", "scale_transform"} =>
                  X_test_scaled = ScalerTransform(fitted, X_test)

C7_Witness ==
    /\ pc = "search"
    /\ Len(X_test_scaled) > 0
    /\ scaler.n_samples_seen_ = Len(X_train)
    /\ ScalerFit(X_test).mean_ # scaler.mean_

\* C8: the search evaluates at most 20 configurations, each a point of the
\* enumerated grid; the returned configuration is the evaluated one at
\* best_index_, its mean score is maximal, and every configuration earlier in
\* search order scores strictly less.
C8_BestOfSampledGrid ==
    Searched =>
        LET res  == random_search.cv_results_
            best == random_search.best_index_
        IN  /\ Len(res) <= 20
            /\ \A i \in DOMAIN res :
                  /\ res[i].params.n_estimators \in {100, 200, 300}
                  /\ res[i].params.max_depth \in {0, 10, 20, 30}
                  /\ res[i].params.min_samples_split \in {2, 5, 10}
                  /\ res[i].params.min_samples_leaf \in {1, 2, 4}
            /\ best \in DOMAIN res
            /\ random_search.best_params_ = res[best].params
            /\ \A j \in DOMAIN res :
                  /\ res[j].mean_test_score <= res[best].mean_test_score
                  /\ j < best => res[j].mean_test_score < res[best].mean_test_score

C8_Witness ==
    /\ Searched
    /\ \E j \in DOMAIN random_search.cv_results_ :
          /\ j > random_search.best_index_
          /\ random_search.cv_results_[j].mean_test_score =
                random_search.cv_results_[random_search.best_index_].mean_test_score
    /\ \E j \in DOMAIN random_search.cv_results_ :
          random_search.cv_results_[j].mean_test_score <
                random_search.cv_results_[random_search.best_index_].mean_test_score

\* C9: with an empty homes relation no modelling stage (imbalance correction,
\* split, scaling, search, evaluation) is ever entered.
C9_EmptyDatasetAbortsBeforeModelling ==
    Len(homes_df) = 0 => started = {}

HoursOf(g) == [e \in g |-> Hour(e.datetime)]

\* C10: for every household with motion rows, a row counts for morning iff
\* its hour h has 6 <= h <= 12, afternoon iff 12 <= h <= 18, evening iff
\* 18 <= h <= 24, night iff 0 <= h <= 6; every row is in at least one bucket,
\* exactly two iff h is 6, 12 or 18, and the four counts add up to
\* motion_count plus the number of rows at hour 6, 12 or 18.
C10_InclusiveBuckets ==
    \A k \in DOMAIN motion_features :
        LET g == Group(motion_features[k].home_id)
            f == motion_features[k].features
            h == HoursOf(g)
            InM(e) == 6 <= h[e] /\ h[e] <= 12
            InA(e) == 12 <= h[e] /\ h[e] <= 18
            InE(e) == 18 <= h[e] /\ h[e] <= 24
            InN(e) == 0 <= h[e] /\ h[e] <= 6
            B(e) == (IF InM(e) THEN 1 ELSE 0) + (IF InA(e) THEN 1 ELSE 0)
                      + (IF InE(e) THEN 1 ELSE 0) + (IF InN(e) THEN 1 ELSE 0)
        IN  /\ f.morning_activity = Num(Cardinality({e \in g : InM(e)}))
            /\ f.afternoon_activity = Num(Cardinality({e \in g : InA(e)}))
            /\ f.evening_activity = Num(Cardinality({e \in g : InE(e)}))
            /\ f.night_activity = Num(Cardinality({e \in g : InN(e)}))
            /\ \A e \in g : B(e) = (IF h[e] \in {6, 12, 18} THEN 2 ELSE 1)
            /\ f.morning_activity[1] + f.afternoon_activity[1]
                 + f.evening_activity[1] + f.night_activity[1]
               = f.motion_count[1] + Cardinality({e \in g : h[e] \in {6, 12, 18}})

C10_Witness ==
    \E k \in DOMAIN motion_features :
        LET g == Group(motion_features[k].home_id)
            f == motion_features[k].features
        IN  /\ \E e \in g : Hour(e.datetime) \in {6, 12, 18}
            /\ \E e \in g : Hour(e.datetime) \notin {6, 12, 18}
            /\ f.morning_activity[1] + f.afternoon_activity[1]
                 + f.evening_activity[1] + f.night_activity[1] > f.motion_count[1]

====
